---- MODULE Spec2Model ----
(***************************************************************************)
(* Model of src/memory.rs: the DMA region allocator (Dma::allocate), the   *)
(* fixed-entry buffer pool (Mempool), the Packet handle (clone, deref,     *)
(* drop), alloc_pkt / alloc_pkt_batch and the process-wide VFIO container  *)
(* slot.                                                                   *)
(*                                                                         *)
(* One Rc<Mempool> is modelled at a time (a new one can be allocated once  *)
(* the previous one has been freed); pools share no state but the two      *)
(* statics, so per-pool properties are not affected.  usize is modelled    *)
(* as a WordBits-bit unsigned integer.  The bytes of the pool's region are *)
(* kept as a function from the addresses holding a non-zero byte to that   *)
(* byte; every other address of the region holds 0x00.                     *)
(***************************************************************************)
EXTENDS Integers, Sequences, FiniteSets, TLC

VARIABLES
    VFIO_CONTAINER_FILE_DESCRIPTOR, \* static mut RawFd, -1 when unset
    HUGEPAGE_ID,                    \* static AtomicUsize
    regions,                        \* the mappings made by Dma::allocate (never unmapped)
    pool,                           \* the Mempool behind the Rc (immutable fields)
    free_stack,                     \* Mempool.free_stack
    strong_count,                   \* strong count of the Rc<Mempool>
    owner,                          \* TRUE while the Rc returned by Mempool::allocate is held
    packets,                        \* live Packet values, by handle
    buffer,                         \* the caller's VecDeque<Packet> (handles)
    mem,                            \* bytes of the pool's region
    last,                           \* the last operation, its arguments and its result
    threads                         \* the Dma::allocate call each concurrent caller is in

vars == << VFIO_CONTAINER_FILE_DESCRIPTOR, HUGEPAGE_ID, regions, pool, free_stack,
           strong_count, owner, packets, buffer, mem, last, threads >>

----------------------------------------------------------------------------
(* Bounds of the model *)

\* width of usize in the model
WordBits == 24
\* largest number of entries of a pool
MaxEntries == 2
\* largest number of Dma::allocate calls that reach the counter or map memory
MaxAllocs == 2
\* largest number of Mempool::allocate calls that reach the counter or map memory
MaxPools == 1
\* largest number of Packet handles alive at once
MaxPackets == 3
\* number of threads that call Dma::allocate concurrently
MaxThreads == 2

(* Program constants *)

HUGE_PAGE_BITS == 21
HUGE_PAGE_SIZE == 2 ^ HUGE_PAGE_BITS
DEFAULT_ENTRY_SIZE == 2048
PAGE_SIZE == 4096

\* usize arithmetic
Word == 2 ^ WordBits
USIZE_MAX == Word - 1
wrap(x) == x % Word
shr(x, n) == x \div (2 ^ n)
shl(x, n) == wrap(x * (2 ^ n))

\* libc::MAP_FAILED is (void *) -1
MAP_FAILED == USIZE_MAX

(* Inputs *)

Entries == 0 .. MaxEntries
EntrySizes == {0, 512, 3000}
Bytes == {0, 255}
Fds == {-1, 3}
DmaSizes == {0, 1, HUGE_PAGE_SIZE, HUGE_PAGE_SIZE + 1,
             Word - HUGE_PAGE_SIZE, Word - HUGE_PAGE_SIZE + 1, USIZE_MAX}
\* what the operating system does to one Dma::allocate / Mempool::allocate call:
\* the first step of it that fails, if any
Scenarios == {"ok", "open_notfound", "open_other", "mmap_fail", "mlock_fail",
              "v2p_fail", "vfio_fail", "v2p_entry_fail"}

None == 0 - 1
Handles == 1 .. MaxPackets

----------------------------------------------------------------------------
(* The operating system and the VFIO collaborator *)

\* the pagemap record of a virtual page, after the mask: its page frame number
PfnOf(vpn) == vpn + 2 ^ 8

\* virt_to_phys, lines 363-379
virt_to_phys(addr) == (PfnOf(addr \div PAGE_SIZE) * PAGE_SIZE) + (addr % PAGE_SIZE)

\* where the kernel places the next mapping: after the last one
next_addr(regs) ==
    IF regs = << >> THEN HUGE_PAGE_SIZE
    ELSE regs[Len(regs)].virt + regs[Len(regs)].len

\* libc::mmap(NULL, len, ..): MAP_FAILED for a zero length (EINVAL), when the address
\* space has no room, or when the kernel refuses; the new address otherwise
mmap(regs, len, scen) ==
    IF len = 0 \/ scen = "mmap_fail" \/ next_addr(regs) + len > Word - HUGE_PAGE_SIZE
    THEN MAP_FAILED
    ELSE next_addr(regs)

\* libc::mlock(ptr, len) == 0
mlock_ok(ptr, scen) == ptr # MAP_FAILED /\ scen # "mlock_fail"

\* vfio_map_dma(ptr, size): the IOVA the container assigns (Ok), chosen by the collaborator
Iovas(ptr) == {ptr, ptr + HUGE_PAGE_SIZE}

----------------------------------------------------------------------------
(* Dma::allocate, lines 35-118 *)

\* lines 36-40: the size rounded up to a multiple of the huge page size
round_up(size) ==
    IF (size % HUGE_PAGE_SIZE) # 0
    THEN shl(shr(size, HUGE_PAGE_BITS) + 1, HUGE_PAGE_BITS)
    ELSE size

get_vfio_container == VFIO_CONTAINER_FILE_DESCRIPTOR

\* a call made to the operating system or to the VFIO collaborator, and whether it
\* succeeded
Call(name, ok) == [call |-> name, ok |-> ok]

DmaResult(st, err, map_len, took_id, opened, virt, phys, calls) ==
    [st |-> st, err |-> err, map_len |-> map_len, took_id |-> took_id,
     opened |-> opened, virt |-> virt, phys |-> phys, calls |-> calls]

\* lines 45-68: the VFIO path
dma_allocate_vfio(size, scen, iova) ==
    LET ptr == mmap(regions, size, scen) IN
    IF ptr = MAP_FAILED
    THEN DmaResult("err", "failed to memory map", size, FALSE, FALSE, None, None,
                   << Call("mmap_anonymous", FALSE) >>)
    ELSE IF scen = "vfio_fail"
    THEN DmaResult("err", "vfio_map_dma", size, FALSE, FALSE, ptr, None,
                   << Call("mmap_anonymous", TRUE), Call("vfio_map_dma", FALSE) >>)
    ELSE DmaResult("ok", "", size, FALSE, FALSE, ptr, iova,
                   << Call("mmap_anonymous", TRUE), Call("vfio_map_dma", TRUE) >>)

\* lines 70-116: the hugetlbfs path
dma_allocate_hugepage(size, require_contigous, scen) ==
    IF require_contigous /\ size > HUGE_PAGE_SIZE
    THEN DmaResult("err", "failed to map physically contigous memory",
                   None, FALSE, FALSE, None, None, << >>)
    ELSE IF scen = "open_notfound"
    THEN DmaResult("err", "hugepage could not be created", None, TRUE, FALSE, None, None,
                   << Call("fetch_add", TRUE), Call("open", FALSE) >>)
    ELSE IF scen = "open_other"
    THEN DmaResult("err", "io", None, TRUE, FALSE, None, None,
                   << Call("fetch_add", TRUE), Call("open", FALSE) >>)
    ELSE LET ptr == mmap(regions, size, scen)
             made == << Call("fetch_add", TRUE), Call("open", TRUE),
                        Call("mmap_file", ptr # MAP_FAILED) >>
         IN
         IF ptr = 0
         THEN DmaResult("err", "failed to memory map hugepage", size, TRUE, TRUE, None, None,
                        made)
         ELSE IF mlock_ok(ptr, scen)
         THEN IF scen = "v2p_fail"
              THEN DmaResult("err", "io", size, TRUE, TRUE, ptr, None,
                             made \o << Call("mlock", TRUE), Call("virt_to_phys", FALSE) >>)
              ELSE DmaResult("ok", "", size, TRUE, TRUE, ptr, virt_to_phys(ptr),
                             made \o << Call("mlock", TRUE), Call("virt_to_phys", TRUE) >>)
         ELSE DmaResult("err", "failed to memory lock hugepage", size, TRUE, TRUE,
                        IF ptr = MAP_FAILED THEN None ELSE ptr, None,
                        made \o << Call("mlock", FALSE) >>)

dma_allocate_hugepage_always(size, require_contigous, scen, iova) ==
    dma_allocate_hugepage(round_up(size), require_contigous, scen)

\* Dma::allocate(size, require_contigous) under the scenario scen
dma_allocate(size, require_contigous, scen, iova) ==
    LET rounded == round_up(size) IN
    IF get_vfio_container # -1
    THEN dma_allocate_vfio(rounded, scen, iova)
    ELSE dma_allocate_hugepage(rounded, require_contigous, scen)

\* the statics and the mappings after a Dma::allocate call with result r
regions_after(r) ==
    IF r.virt # None THEN Append(regions, [virt |-> r.virt, len |-> r.map_len])
    ELSE regions

\* the value HUGEPAGE_ID.fetch_add(1, SeqCst) leaves in a counter holding c
fetch_add_lost(c) == c

fetch_add(c) == wrap(c + 1)

id_after(r) == IF r.took_id THEN fetch_add(HUGEPAGE_ID) ELSE HUGEPAGE_ID

\* the guard that keeps the model finite
CanAllocate == HUGEPAGE_ID < MaxAllocs /\ Len(regions) < MaxAllocs
CanAllocatePool == HUGEPAGE_ID < MaxPools /\ Len(regions) < MaxPools

----------------------------------------------------------------------------
(* Memory *)

EmptyMem == [a \in {} |-> 0]

\* *addr
read(m, addr) == IF addr \in DOMAIN m THEN m[addr] ELSE 0

\* *addr = value
write(m, addr, value) ==
    [x \in (IF value = 0 THEN DOMAIN m \ {addr} ELSE DOMAIN m \cup {addr}) |->
        IF x = addr THEN value ELSE m[x]]

memset_short(m, addr, len, value) ==
    [x \in (IF value = 0 THEN DOMAIN m \ (addr .. addr + len - 2)
            ELSE DOMAIN m \cup (addr .. addr + len - 2)) |->
        IF x \in addr .. addr + len - 2 THEN value ELSE m[x]]

\* memset(addr, len, value), lines 356-360
memset(m, addr, len, value) ==
    [x \in (IF value = 0 THEN DOMAIN m \ (addr .. addr + len - 1)
            ELSE DOMAIN m \cup (addr .. addr + len - 1)) |->
        IF x \in addr .. addr + len - 1 THEN value ELSE m[x]]

\* what a fresh mapping of len bytes at addr may hold before it is written
Garbage(addr, len) ==
    {EmptyMem} \cup {[a \in {x} |-> 255] : x \in {addr, addr + len - 1} \cap (addr .. addr + len - 1)}

----------------------------------------------------------------------------
(* Mempool, lines 240-311 *)

NoPool == [live |-> FALSE, id |-> 0, base_addr |-> 0, num_entries |-> 0,
           entry_size |-> 0, phys_addresses |-> << >>]

\* lines 255-258
effective_entry_size(size) == IF size = 0 THEN DEFAULT_ENTRY_SIZE ELSE size

\* the divisibility check applied whether or not a container is set
entry_size_rejected_any(entry_size) == (HUGE_PAGE_SIZE % entry_size) # 0

\* line 260: the condition of the panic
entry_size_rejected(entry_size) ==
    get_vfio_container = -1 /\ (HUGE_PAGE_SIZE % entry_size) # 0

\* lines 267-274
phys_addresses_of(virt, entries, entry_size) ==
    [k \in 1 .. entries |->
        IF get_vfio_container # -1
        THEN virt + (k - 1) * entry_size
        ELSE virt_to_phys(virt + (k - 1) * entry_size)]

\* line 287: free_stack.extend(0..entries)
initial_free_stack(entries) == [k \in 1 .. entries |-> k - 1]

\* alloc_buf falling back to entry 0 on an empty stack
alloc_buf_or_zero(fs) == IF fs = << >> THEN 0 ELSE fs[Len(fs)]

\* Vec::pop of alloc_buf, lines 293-295: the value returned
alloc_buf(fs) == IF fs = << >> THEN None ELSE fs[Len(fs)]

\* alloc_buf reading the top of the stack without removing it
alloc_buf_stack_keep(fs) == fs

\* Vec::pop of alloc_buf, lines 293-295: the stack left
alloc_buf_stack(fs) == IF fs = << >> THEN fs ELSE SubSeq(fs, 1, Len(fs) - 1)

\* free_buf pushing the index twice
free_buf_twice(fs, id) == Append(Append(fs, id), id)

\* free_buf pushing nothing
free_buf_none(fs, id) == fs

\* lines 298-300
free_buf(fs, id) == Append(fs, id)

\* get_virt_addr advancing one byte, not one entry, per index
get_virt_addr_bytewise(id) == pool.base_addr + id

\* lines 303-305
get_virt_addr(id) == pool.base_addr + id * pool.entry_size

\* lines 308-310
get_phys_addr(id) == pool.phys_addresses[id + 1]

----------------------------------------------------------------------------
(* Packet, lines 121-175, and alloc_pkt, lines 336-353 *)

Packet_new(addr_virt, addr_phys, len, p, pool_entry) ==
    [addr_virt |-> addr_virt, addr_phys |-> addr_phys, len |-> len,
     pool |-> p, pool_entry |-> pool_entry]

NoPacket == Packet_new(None, None, 0, 0, None)

\* the size check refusing size = entry_size too
too_large_ge(size) == size >= pool.entry_size

\* line 337
too_large(size) == size > pool.entry_size

\* alloc_pkt(pool, size) on the free stack fs: the Option<Packet> and the stack left
alloc_pkt(fs, size) ==
    IF too_large(size)
    THEN [some |-> FALSE, pkt |-> NoPacket, stack |-> fs]
    ELSE LET packet == alloc_buf(fs) IN
         IF packet = None
         THEN [some |-> FALSE, pkt |-> NoPacket, stack |-> alloc_buf_stack(fs)]
         ELSE [some |-> TRUE,
               pkt |-> Packet_new(get_virt_addr(packet), get_phys_addr(packet), size,
                                  pool.id, packet),
               stack |-> alloc_buf_stack(fs)]

\* alloc_pkt_batch returning the number asked for when the pool runs out
RECURSIVE alloc_pkt_batch_asked(_, _, _, _, _)
alloc_pkt_batch_asked(fs, out, allocated, num_packets, packet_size) ==
    LET r == alloc_pkt(fs, packet_size) IN
    IF ~r.some
    THEN [stack |-> r.stack, out |-> out, allocated |-> num_packets]
    ELSE IF allocated + 1 >= num_packets
    THEN [stack |-> r.stack, out |-> Append(out, r.pkt), allocated |-> allocated + 1]
    ELSE alloc_pkt_batch_asked(r.stack, Append(out, r.pkt), allocated + 1, num_packets,
                               packet_size)

\* alloc_pkt_batch, lines 314-332: the loop, from the free stack fs with out already
\* pushed and allocated counted
RECURSIVE alloc_pkt_batch(_, _, _, _, _)
alloc_pkt_batch(fs, out, allocated, num_packets, packet_size) ==
    LET r == alloc_pkt(fs, packet_size) IN
    IF ~r.some
    THEN [stack |-> r.stack, out |-> out, allocated |-> allocated]
    ELSE IF allocated + 1 >= num_packets
    THEN [stack |-> r.stack, out |-> Append(out, r.pkt), allocated |-> allocated + 1]
    ELSE alloc_pkt_batch(r.stack, Append(out, r.pkt), allocated + 1, num_packets, packet_size)

\* Deref for Packet, lines 138-150: the bytes of the slice, by offset
deref(m, p) == [o \in 0 .. p.len - 1 |-> read(m, p.addr_virt + o)]

\* deref_mut()[o] = value
deref_mut_store(m, p, o, value) == write(m, p.addr_virt + o, value)

\* a clone that copies nothing
clone_from_slice_none(m, dst, src, len) == m

\* dst.clone_from_slice(src), line 132 (both of length len)
clone_from_slice(m, dst, src, len) ==
    [x \in ((DOMAIN m \ (dst .. dst + len - 1))
            \cup {dst + (a - src) : a \in DOMAIN m \cap (src .. src + len - 1)}) |->
        IF x \in dst .. dst + len - 1 THEN m[src + (x - dst)] ELSE m[x]]

\* the handles in use and the next one
Live == DOMAIN packets
\* the i-th handle not in use
NthFresh(i) ==
    CHOOSE h \in Handles \ Live : Cardinality({g \in Handles \ Live : g < h}) = i - 1
Unused == Cardinality(Handles \ Live)

\* a sequence without the element x
RECURSIVE Without(_, _)
Without(q, x) ==
    IF q = << >> THEN << >>
    ELSE IF Head(q) = x THEN Without(Tail(q), x)
    ELSE << Head(q) >> \o Without(Tail(q), x)

\* the record of an operation: its name, arguments a and b, result ret, outcome st and,
\* for an allocation, the Dma it obtained
\* the threads that call Dma::allocate, and a thread that has made no call yet
Threads == 1 .. MaxThreads
ThreadSizes == {1, HUGE_PAGE_SIZE + 1}
Idle == [pc |-> "idle", size |-> 0, require_contigous |-> FALSE, path |-> "none",
         took |-> 0, ids |-> << >>]

NoDma == [virt |-> None, phys |-> None, calls |-> << >>]
LastDma(op, a, b, ret, st, dma) ==
    [op |-> op, a |-> a, b |-> b, ret |-> ret, st |-> st, dma |-> dma]
Last(op, a, b, ret, st) == LastDma(op, a, b, ret, st, NoDma)

----------------------------------------------------------------------------
(* The state after construction: no container, no mapping, no pool *)

Init ==
    /\ VFIO_CONTAINER_FILE_DESCRIPTOR = -1
    /\ HUGEPAGE_ID = 0
    /\ regions = << >>
    /\ pool = NoPool
    /\ free_stack = << >>
    /\ strong_count = 0
    /\ owner = FALSE
    /\ packets = [h \in {} |-> NoPacket]
    /\ buffer = << >>
    /\ mem = EmptyMem
    /\ last = Last("init", 0, 0, 0, "")
    /\ threads = [t \in Threads |-> Idle]

----------------------------------------------------------------------------
(* Operations *)

\* set_vfio_container(cfd), lines 385-387
SetVfioContainer ==
    \E cfd \in Fds :
        /\ VFIO_CONTAINER_FILE_DESCRIPTOR' = cfd
        /\ last' = Last("set_vfio_container", cfd, 0, 0, "")
        /\ UNCHANGED << HUGEPAGE_ID, regions, pool, free_stack, strong_count, owner,
                        packets, buffer, mem, threads >>

\* Dma::allocate(size, require_contigous) called on its own, lines 35-118
DmaAllocate ==
    \E size \in DmaSizes, require_contigous \in BOOLEAN, scen \in Scenarios :
    \E iova \in Iovas(next_addr(regions)) :
        LET r == dma_allocate(size, require_contigous, scen, iova) IN
        /\ CanAllocate
        /\ regions' = regions_after(r)
        /\ HUGEPAGE_ID' = id_after(r)
        /\ last' = LastDma("dma_allocate", size, IF require_contigous THEN 1 ELSE 0,
                           r.map_len, IF r.st = "ok" THEN "ok" ELSE r.err,
                           [virt |-> r.virt, phys |-> r.phys, calls |-> r.calls])
        /\ UNCHANGED << threads, VFIO_CONTAINER_FILE_DESCRIPTOR, pool, free_stack, strong_count,
                        owner, packets, buffer, mem >>

\* Mempool::allocate(entries, size), lines 254-290
MempoolAllocate ==
    \E entries \in Entries, size \in EntrySizes, scen \in Scenarios :
    \E iova \in Iovas(next_addr(regions)) :
        LET entry_size == effective_entry_size(size)
            r == dma_allocate(wrap(entries * entry_size), FALSE, scen, iova)
            len == entries * entry_size
        IN
        /\ ~pool.live
        /\ IF entry_size_rejected(entry_size)
           THEN /\ last' = Last("mempool_allocate", entries, size, 0, "panic")
                /\ UNCHANGED << HUGEPAGE_ID, regions, pool, free_stack, strong_count,
                                owner, mem >>
           ELSE /\ CanAllocatePool
                /\ regions' = regions_after(r)
                /\ HUGEPAGE_ID' = id_after(r)
                /\ IF r.st # "ok"
                   THEN /\ last' = Last("mempool_allocate", entries, size, 0, r.err)
                        /\ UNCHANGED << pool, free_stack, strong_count, owner, mem >>
                   ELSE IF get_vfio_container = -1 /\ scen = "v2p_entry_fail" /\ entries > 0
                   THEN /\ last' = Last("mempool_allocate", entries, size, 0, "io")
                        /\ UNCHANGED << pool, free_stack, strong_count, owner, mem >>
                   ELSE /\ pool' = [live |-> TRUE, id |-> Len(regions'),
                                    base_addr |-> r.virt, num_entries |-> entries,
                                    entry_size |-> entry_size,
                                    phys_addresses |->
                                        phys_addresses_of(r.virt, entries, entry_size)]
                        /\ \E g \in Garbage(r.virt, len) :
                               mem' = memset(g, r.virt, len, 0)
                        /\ free_stack' = initial_free_stack(entries)
                        /\ strong_count' = 1
                        /\ owner' = TRUE
                        /\ last' = LastDma("mempool_allocate", entries, size, Len(regions'),
                                           "ok", [virt |-> r.virt, phys |-> r.phys,
                                                  calls |-> r.calls])
        /\ UNCHANGED << threads, VFIO_CONTAINER_FILE_DESCRIPTOR, packets, buffer >>

\* the sizes asked of alloc_pkt
PacketSizes == {0, pool.entry_size, pool.entry_size + 1}

\* alloc_pkt(pool, size), lines 336-353; the caller keeps the Packet
AllocPkt ==
    \E size \in PacketSizes :
        LET r == alloc_pkt(free_stack, size) IN
        /\ pool.live
        /\ r.some => Unused >= 1
        /\ free_stack' = r.stack
        /\ IF r.some
           THEN /\ packets' = packets @@ (NthFresh(1) :> r.pkt)
                /\ strong_count' = strong_count + 1
                /\ last' = Last("alloc_pkt", size, 0, NthFresh(1), "some")
           ELSE /\ last' = Last("alloc_pkt", size, 0, 0, "none")
                /\ UNCHANGED << packets, strong_count >>
        /\ UNCHANGED << threads, VFIO_CONTAINER_FILE_DESCRIPTOR, HUGEPAGE_ID, regions, pool, owner,
                        buffer, mem >>

\* the numbers of packets asked of alloc_pkt_batch
BatchSizes == 0 .. MaxEntries + 1

\* alloc_pkt_batch(pool, buffer, num_packets, packet_size), lines 314-332
AllocPktBatch ==
    \E num_packets \in BatchSizes, packet_size \in PacketSizes :
        LET r == alloc_pkt_batch(free_stack, << >>, 0, num_packets, packet_size) IN
        /\ pool.live
        /\ Unused >= Len(r.out)
        /\ free_stack' = r.stack
        /\ packets' = packets @@ [h \in {NthFresh(i) : i \in 1 .. Len(r.out)} |->
                                    r.out[CHOOSE i \in 1 .. Len(r.out) : NthFresh(i) = h]]
        /\ buffer' = buffer \o [i \in 1 .. Len(r.out) |-> NthFresh(i)]
        /\ strong_count' = strong_count + Len(r.out)
        /\ last' = Last("alloc_pkt_batch", num_packets, packet_size, r.allocated, "")
        /\ UNCHANGED << threads, VFIO_CONTAINER_FILE_DESCRIPTOR, HUGEPAGE_ID, regions, pool, owner, mem >>

\* Packet::clone, lines 129-136; the caller keeps the new Packet
PacketClone ==
    \E h \in Live :
        LET self == packets[h]
            r == alloc_pkt(free_stack, self.len)
        IN
        IF ~r.some
        THEN /\ last' = Last("clone", h, 0, 0, "panic")
             /\ free_stack' = r.stack
             /\ UNCHANGED << threads, VFIO_CONTAINER_FILE_DESCRIPTOR, HUGEPAGE_ID, regions, pool,
                             strong_count, owner, packets, buffer, mem >>
        ELSE /\ Unused >= 1
             /\ free_stack' = r.stack
             /\ packets' = packets @@ (NthFresh(1) :> r.pkt)
             /\ strong_count' = strong_count + 1
             /\ mem' = clone_from_slice(mem, r.pkt.addr_virt, self.addr_virt, self.len)
             /\ last' = Last("clone", h, 0, NthFresh(1), "some")
             /\ UNCHANGED << threads, VFIO_CONTAINER_FILE_DESCRIPTOR, HUGEPAGE_ID, regions, pool,
                             owner, buffer >>

\* the offsets written through a Packet of length len
Offsets(len) == {len - 1} \cap (0 .. len - 1)

\* a store through DerefMut, lines 146-150: p[o] = value
PacketWrite ==
    \E h \in Live :
    \E o \in Offsets(packets[h].len), value \in Bytes :
        /\ mem' = deref_mut_store(mem, packets[h], o, value)
        /\ last' = Last("write", h, 0, 0, "")
        /\ UNCHANGED << threads, VFIO_CONTAINER_FILE_DESCRIPTOR, HUGEPAGE_ID, regions, pool,
                        free_stack, strong_count, owner, packets, buffer >>

release_pool_at_once ==
    /\ strong_count' = strong_count - 1
    /\ pool' = NoPool
    /\ mem' = EmptyMem

\* the Rc<Mempool> loses one strong reference; the Mempool is freed with the last one
\* (neither Mempool nor Dma implements Drop: the mapping stays)
release_pool ==
    /\ strong_count' = strong_count - 1
    /\ IF strong_count - 1 = 0
       THEN /\ pool' = NoPool
            /\ mem' = EmptyMem
       ELSE UNCHANGED << pool, mem >>

\* Drop for Packet, lines 152-157, then the drop of its fields
PacketDrop ==
    \E h \in Live :
        /\ free_stack' = IF strong_count - 1 = 0 THEN << >>
                         ELSE free_buf(free_stack, packets[h].pool_entry)
        /\ packets' = [g \in Live \ {h} |-> packets[g]]
        /\ buffer' = Without(buffer, h)
        /\ release_pool
        /\ last' = Last("drop", h, packets[h].pool_entry, 0, "")
        /\ UNCHANGED << threads, VFIO_CONTAINER_FILE_DESCRIPTOR, HUGEPAGE_ID, regions, owner >>

\* the caller drops the Rc<Mempool> that Mempool::allocate returned
PoolDrop ==
    /\ owner
    /\ owner' = FALSE
    /\ free_stack' = IF strong_count - 1 = 0 THEN << >> ELSE free_stack
    /\ release_pool
    /\ last' = Last("pool_drop", 0, 0, 0, "")
    /\ UNCHANGED << threads, VFIO_CONTAINER_FILE_DESCRIPTOR, HUGEPAGE_ID, regions, packets, buffer >>

\* the container is set while the devices are set up, before the pool is in use
Setup == ~pool.live /\ SetVfioContainer

\* the pool and its packets
Next ==
    \/ Setup
    \/ MempoolAllocate
    \/ AllocPkt
    \/ AllocPktBatch
    \/ PacketClone
    \/ PacketWrite
    \/ PacketDrop
    \/ PoolDrop

Spec == Init /\ [][Next]_vars

\* the DMA region allocator on its own
NextDma ==
    \/ SetVfioContainer
    \/ DmaAllocate

SpecDma == Init /\ [][NextDma]_vars

\* One step of a Dma::allocate call made by thread t concurrently with the calls of
\* the other threads.  Line 42: the container is read and the path chosen; lines 70-72:
\* the contiguity test of the hugetlbfs path.
ThreadCall(t) ==
    \E size \in ThreadSizes, require_contigous \in BOOLEAN :
        LET path == IF get_vfio_container # -1 THEN "iommu"
                    ELSE IF dma_allocate_hugepage(round_up(size), require_contigous,
                                                  "ok").took_id
                    THEN "hugepage"
                    ELSE "rejected"
        IN
        /\ threads[t].pc = "idle"
        /\ threads' = [threads EXCEPT ![t] =
                          [@ EXCEPT !.pc = CASE path = "iommu" -> "mmap"
                                            [] path = "hugepage" -> "fetch_add"
                                            [] OTHER -> "idle",
                                    !.size = size,
                                    !.require_contigous = require_contigous,
                                    !.path = path,
                                    !.took = 0]]
        /\ UNCHANGED << VFIO_CONTAINER_FILE_DESCRIPTOR, HUGEPAGE_ID, regions, pool,
                        free_stack, strong_count, owner, packets, buffer, mem, last >>

\* line 74: let id = HUGEPAGE_ID.fetch_add(1, Ordering::SeqCst), one atomic step
ThreadFetchAdd(t) ==
    /\ threads[t].pc = "fetch_add"
    /\ HUGEPAGE_ID < MaxAllocs
    /\ HUGEPAGE_ID' = fetch_add(HUGEPAGE_ID)
    /\ threads' = [threads EXCEPT ![t] =
                      [@ EXCEPT !.pc = "open",
                                !.ids = Append(@, HUGEPAGE_ID),
                                !.took = @ + 1]]
    /\ UNCHANGED << VFIO_CONTAINER_FILE_DESCRIPTOR, regions, pool, free_stack,
                    strong_count, owner, packets, buffer, mem, last >>

\* the rest of the call: lines 75-117 on the hugetlbfs path, lines 43-68 under IOMMU
ThreadReturn(t) ==
    \E scen \in Scenarios :
    \E iova \in Iovas(next_addr(regions)) :
        LET rounded == round_up(threads[t].size)
            r == IF threads[t].path = "iommu"
                 THEN dma_allocate_vfio(rounded, scen, iova)
                 ELSE dma_allocate_hugepage(rounded, threads[t].require_contigous, scen)
        IN
        /\ threads[t].pc \in {"mmap", "open"}
        /\ Len(regions) < MaxAllocs
        /\ regions' = regions_after(r)
        /\ threads' = [threads EXCEPT ![t] = [@ EXCEPT !.pc = "idle"]]
        /\ UNCHANGED << VFIO_CONTAINER_FILE_DESCRIPTOR, HUGEPAGE_ID, pool, free_stack,
                        strong_count, owner, packets, buffer, mem, last >>

\* concurrent callers of Dma::allocate
NextThreads ==
    \/ SetVfioContainer
    \/ \E t \in Threads : ThreadCall(t)
    \/ \E t \in Threads : ThreadFetchAdd(t)
    \/ \E t \in Threads : ThreadReturn(t)

SpecThreads == Init /\ [][NextThreads]_vars

----------------------------------------------------------------------------
(* Properties *)

FreeSet == {free_stack[i] : i \in DOMAIN free_stack}
LiveEntries == {packets[h].pool_entry : h \in Live}
NoRepeat(q) == \A i, j \in DOMAIN q : i # j => q[i] # q[j]
IsPrefix(q, r) == Len(q) <= Len(r) /\ SubSeq(r, 1, Len(q)) = q

\* C1: the free-list and the entry indices held by live Packets are disjoint, hold no
\* index twice, and together are exactly 0 .. num_entries - 1; so their sizes add up
\* to num_entries.
PartitionInvariant ==
    /\ NoRepeat(free_stack)
    /\ \A g, h \in Live : g # h => packets[g].pool_entry # packets[h].pool_entry
    /\ FreeSet \cap LiveEntries = {}
    /\ FreeSet \cup LiveEntries = 0 .. pool.num_entries - 1
    /\ Len(free_stack) + Cardinality(Live) = pool.num_entries

\* a Packet was dropped and the pool holds a free entry beside a live Packet
PartitionWitness ==
    /\ last.op = "drop"
    /\ pool.live
    /\ Cardinality(Live) = 1
    /\ Len(free_stack) = 1

\* C2: a checkout (alloc_pkt, alloc_pkt_batch, clone) never hands out an index that a
\* live Packet holds, and no two live Packets have the same pool_entry.
NoDoubleIssue ==
    [][/\ \A h \in Live' \ Live : \A g \in Live :
              packets'[h].pool_entry # packets[g].pool_entry
       /\ \A g, h \in Live' : g # h => packets'[g].pool_entry # packets'[h].pool_entry]_vars

\* alloc_pkt returned a Packet while another Packet was live
NoDoubleIssueWitness ==
    /\ last.op = "alloc_pkt"
    /\ last.st = "some"
    /\ Cardinality(Live) = 2

\* C3: the drop of a Packet of a pool that stays alive appends the Packet's entry index
\* to the free-list, once, and changes neither the other Packets, the pool nor the
\* memory; the next checkout returns that index; no other operation on the pool adds
\* an index to the free-list.
ReleaseOnDrop ==
    [][/\ (last'.op = "drop" /\ pool'.live) =>
              /\ last'.a \in Live
              /\ free_stack' = Append(free_stack, packets[last'.a].pool_entry)
              /\ alloc_buf(free_stack') = packets[last'.a].pool_entry
              /\ Live' = Live \ {last'.a}
              /\ \A g \in Live' : packets'[g] = packets[g]
              /\ pool' = pool
              /\ mem' = mem
       /\ (last'.op \notin {"drop", "mempool_allocate"}) => IsPrefix(free_stack', free_stack)]_vars

\* a Packet was dropped, its index is on top of the free-list, another Packet lives
ReleaseOnDropWitness ==
    /\ last.op = "drop"
    /\ pool.live
    /\ free_stack # << >>
    /\ free_stack[Len(free_stack)] = last.b
    /\ Live # {}

\* C4: alloc_pkt with size > entry_size returns None and leaves the free-list and the
\* Packets as they are; with size <= entry_size and a free entry it returns a Packet
\* of length size.
OversizedRejected ==
    [][last'.op = "alloc_pkt" =>
          /\ last'.a > pool.entry_size =>
                 /\ last'.st = "none"
                 /\ free_stack' = free_stack
                 /\ packets' = packets
          /\ (last'.a <= pool.entry_size /\ free_stack # << >>) =>
                 /\ last'.st = "some"
                 /\ last'.ret \in Live' \ Live
                 /\ packets'[last'.ret].len = last'.a]_vars

\* an oversized request was refused on a pool with a free entry
OversizedRejectedWitness ==
    /\ last.op = "alloc_pkt"
    /\ last.a = pool.entry_size + 1
    /\ last.st = "none"
    /\ free_stack # << >>

\* C5: with k free entries, k < num_packets, and size <= entry_size, alloc_pkt_batch
\* returns k, appends k Packets holding the k free indices to the back of the queue,
\* leaves the queue's elements and the other Packets as they are, and empties the
\* free-list.
BatchExhaustionAware ==
    [][(/\ last'.op = "alloc_pkt_batch"
        /\ Len(free_stack) < last'.a
        /\ last'.b <= pool.entry_size) =>
          /\ last'.ret = Len(free_stack)
          /\ Len(buffer') = Len(buffer) + Len(free_stack)
          /\ SubSeq(buffer', 1, Len(buffer)) = buffer
          /\ \A i \in Len(buffer) + 1 .. Len(buffer') : buffer'[i] \in Live' \ Live
          /\ NoRepeat(buffer')
          /\ {packets'[buffer'[i]].pool_entry : i \in Len(buffer) + 1 .. Len(buffer')} = FreeSet
          /\ Live' = Live \cup {buffer'[i] : i \in Len(buffer) + 1 .. Len(buffer')}
          /\ \A g \in Live : packets'[g] = packets[g]
          /\ free_stack' = << >>]_vars

\* a batch came back short, with at least one Packet
BatchExhaustionWitness ==
    /\ last.op = "alloc_pkt_batch"
    /\ last.b <= pool.entry_size
    /\ last.ret >= 1
    /\ last.ret < last.a
    /\ free_stack = << >>

\* C6: with at least num_packets free entries and size <= entry_size, alloc_pkt_batch
\* returns num_packets, appends num_packets Packets and takes num_packets indices off
\* the free-list, for every num_packets >= 0; the count never exceeds num_packets.
BatchStopsAtNumPackets ==
    [][last'.op = "alloc_pkt_batch" =>
          /\ last'.ret <= last'.a
          /\ (Len(free_stack) >= last'.a /\ last'.b <= pool.entry_size) =>
                 /\ last'.ret = last'.a
                 /\ Len(buffer') = Len(buffer) + last'.a
                 /\ Len(free_stack') = Len(free_stack) - last'.a]_vars

\* C7: a clone is a new live Packet of the same pool with the length and the bytes of
\* the original and another entry index, and leaves the original's bytes as they were;
\* a write through one Packet leaves the bytes of every other live Packet unchanged.
CloneRoundTrip ==
    [][/\ (last'.op = "clone" /\ last'.st = "some") =>
              /\ last'.a \in Live
              /\ last'.ret \in Live' \ Live
              /\ packets'[last'.a] = packets[last'.a]
              /\ packets'[last'.ret].len = packets[last'.a].len
              /\ packets'[last'.ret].pool = packets[last'.a].pool
              /\ packets'[last'.ret].pool_entry # packets[last'.a].pool_entry
              /\ deref(mem', packets'[last'.ret]) = deref(mem, packets[last'.a])
              /\ deref(mem', packets'[last'.a]) = deref(mem, packets[last'.a])
       /\ last'.op = "write" =>
              \A g \in Live \ {last'.a} : deref(mem', packets[g]) = deref(mem, packets[g])]_vars

\* a Packet holding a non-zero byte was cloned
CloneRoundTripWitness ==
    /\ last.op = "clone"
    /\ last.st = "some"
    /\ last.a \in Live
    /\ packets[last.a].len > 0
    /\ read(mem, packets[last.a].addr_virt + packets[last.a].len - 1) = 255

\* C8: a clone on a pool without a free entry panics, returns no Packet and leaves the
\* free-list, the Packets and the memory as they are.
CloneNoPartialSuccess ==
    [][(last'.op = "clone" /\ free_stack = << >>) =>
          /\ last'.st = "panic"
          /\ UNCHANGED << free_stack, packets, buffer, mem, pool, strong_count >>]_vars

\* a clone panicked on an exhausted pool
CloneNoPartialSuccessWitness ==
    /\ last.op = "clone"
    /\ last.st = "panic"
    /\ free_stack = << >>
    /\ Cardinality(Live) = pool.num_entries
    /\ pool.num_entries > 0

SizeRounding ==
    (last.op = "dma_allocate" /\ last.ret # None) =>
        /\ (last.ret % HUGE_PAGE_SIZE) = 0
        /\ last.ret >= last.a
        /\ last.ret - last.a < HUGE_PAGE_SIZE

\* C11: with a container set, the device address Mempool::allocate stores for entry i is
\* the IOVA that vfio_map_dma returned for the region plus i * entry_size.
IommuEntryAddress ==
    (/\ last.op = "mempool_allocate"
     /\ last.st = "ok"
     /\ VFIO_CONTAINER_FILE_DESCRIPTOR # -1) =>
        \A i \in 0 .. pool.num_entries - 1 :
            get_phys_addr(i) = last.dma.phys + i * pool.entry_size

\* C12: without a container, a failed mapping, a failed page lock and a missing
\* huge-page file each end Dma::allocate with their own error; a failed mapping is
\* reported as the mapping error, with no lock and no address translation attempted,
\* and no step is made twice.
DistinctFailureModes ==
    (last.op = "dma_allocate" /\ VFIO_CONTAINER_FILE_DESCRIPTOR = -1) =>
        LET calls == last.dma.calls
            made(name) == \E i \in DOMAIN calls : calls[i].call = name
            failed(name) == \E i \in DOMAIN calls : calls[i] = Call(name, FALSE)
        IN
        /\ failed("mmap_file") =>
               /\ last.st = "failed to memory map hugepage"
               /\ ~made("mlock")
               /\ ~made("virt_to_phys")
        /\ failed("mlock") =>
               /\ last.st = "failed to memory lock hugepage"
               /\ ~failed("mmap_file")
        /\ failed("open") => last.st \in {"hugepage could not be created", "io"}
        /\ \A i, j \in DOMAIN calls : calls[i].call = calls[j].call => i = j

\* C13: without a container, Dma::allocate(size, true) with size above 2 MiB fails with
\* the contiguity error before it takes a counter value, creates a file or maps memory;
\* a call with require_contigous false or size at most 2 MiB never gets that error.
ContiguityFailFast ==
    [][(last'.op = "dma_allocate" /\ VFIO_CONTAINER_FILE_DESCRIPTOR = -1) =>
          IF last'.b = 1 /\ last'.a > 2097152
          THEN /\ last'.st = "failed to map physically contigous memory"
               /\ last'.dma.calls = << >>
               /\ UNCHANGED << HUGEPAGE_ID, regions >>
          ELSE last'.st # "failed to map physically contigous memory"]_vars

\* C14: however concurrent Dma::allocate calls interleave, no counter value is obtained
\* twice, the counter never decreases, a call that reaches the hugetlbfs allocation takes
\* exactly one value (the values taken are 0 .. HUGEPAGE_ID - 1), and a call on the IOMMU
\* path takes none and leaves the counter as it is.
UniqueCounterValues ==
    [][/\ HUGEPAGE_ID' >= HUGEPAGE_ID
       /\ \A t, u \in Threads :
          \A i \in DOMAIN threads'[t].ids, j \in DOMAIN threads'[u].ids :
              threads'[t].ids[i] = threads'[u].ids[j] => (t = u /\ i = j)
       /\ UNION {{threads'[t].ids[i] : i \in DOMAIN threads'[t].ids} : t \in Threads}
              = 0 .. HUGEPAGE_ID' - 1
       /\ \A t \in Threads :
              /\ (threads'[t].pc = "idle" /\ threads'[t].path = "hugepage") =>
                     threads'[t].took = 1
              /\ threads'[t].path = "iommu" =>
                     /\ threads'[t].took = 0
                     /\ threads'[t] # threads[t] => HUGEPAGE_ID' = HUGEPAGE_ID]_vars

\* two calls are past fetch_add at the same time, each with its own value, while the
\* counter stands at 2
UniqueCounterValuesWitness ==
    /\ threads[1].pc = "open"
    /\ threads[2].pc = "open"
    /\ threads[1].ids # << >>
    /\ threads[2].ids # << >>
    /\ HUGEPAGE_ID = 2

\* C15: a pool that has a live Packet is not freed, even after its owner dropped the
\* handle; the strong count is the number of handles the owner holds plus the number of
\* live Packets, and the pool is freed exactly when that count is zero.
PoolOutlivesPackets ==
    /\ Live # {} => pool.live
    /\ strong_count = (IF owner THEN 1 ELSE 0) + Cardinality(Live)
    /\ pool.live <=> strong_count > 0

\* the owner dropped its handle and a Packet keeps the pool alive
PoolOutlivesPacketsWitness ==
    /\ ~owner
    /\ Live # {}
    /\ pool.live
    /\ last.op = "pool_drop"

\* C16: when the last referent of a pool (the owner's handle or the last live Packet)
\* is released, the pool's DMA region is unmapped: after that step it is no longer
\* among the mappings.
LastReferentTeardown ==
    [][(pool.live /\ ~pool'.live) =>
          \A i \in DOMAIN regions' : regions'[i].virt # pool.base_addr]_vars

\* C17: get_vfio_container is -1 until set_vfio_container is called and then the value
\* set last; Dma::allocate takes the IOMMU path (anonymous mapping, then the IOMMU
\* mapping, no file and no counter value) exactly when the container is not -1 at the
\* call, and the hugetlbfs path otherwise.
StrategyFollowsContainer ==
    [][LET calls == last'.dma.calls
           made(name) == \E i \in DOMAIN calls : calls[i].call = name
       IN
       /\ last.op = "init" => get_vfio_container = -1
       /\ IF last'.op = "set_vfio_container"
          THEN get_vfio_container' = last'.a
          ELSE get_vfio_container' = get_vfio_container
       /\ (last'.op = "dma_allocate" /\ get_vfio_container # -1) =>
              /\ calls # << >>
              /\ calls[1].call = "mmap_anonymous"
              /\ calls[1].ok => (Len(calls) = 2 /\ calls[2].call = "vfio_map_dma")
              /\ ~calls[1].ok => Len(calls) = 1
              /\ HUGEPAGE_ID' = HUGEPAGE_ID
       /\ (last'.op = "dma_allocate" /\ get_vfio_container = -1) =>
              /\ ~made("mmap_anonymous")
              /\ ~made("vfio_map_dma")
              /\ calls # << >> =>
                     /\ calls[1].call = "fetch_add"
                     /\ calls[2].call = "open"
                     /\ HUGEPAGE_ID' = HUGEPAGE_ID + 1]_vars

\* a region was allocated through the IOMMU after the container was set
StrategyFollowsContainerWitness ==
    /\ last.op = "dma_allocate"
    /\ last.st = "ok"
    /\ get_vfio_container = 3
    /\ HUGEPAGE_ID = 0
    /\ last.dma.calls = << Call("mmap_anonymous", TRUE), Call("vfio_map_dma", TRUE) >>

\* C18: right after a successful Mempool::allocate(n, entry_size) every byte of the
\* n * effective entry size bytes of the pool reads 0x00, the free-list holds 0 .. n-1
\* once each in ascending order, and no Packet is live.
ZeroedAndAllFree ==
    (last.op = "mempool_allocate" /\ last.st = "ok") =>
        LET n == last.a
            es == IF last.b = 0 THEN 2048 ELSE last.b
        IN
        /\ pool.live
        /\ pool.num_entries = n
        /\ pool.entry_size = es
        /\ \A a \in pool.base_addr .. pool.base_addr + n * es - 1 : read(mem, a) = 0
        /\ Len(free_stack) = n
        /\ \A k \in 1 .. n : free_stack[k] = k - 1
        /\ Live = {}

\* a pool of two entries of 2048 bytes was made
ZeroedAndAllFreeWitness ==
    /\ last.op = "mempool_allocate"
    /\ last.st = "ok"
    /\ last.a = 2
    /\ last.b = 0
    /\ free_stack = << 0, 1 >>
    /\ read(mem, pool.base_addr + 4095) = 0

\* C19: on an empty free-list alloc_buf and alloc_pkt return None and change nothing;
\* when a live Packet of the pool has just been dropped, the next alloc_pkt with size at
\* most entry_size succeeds.
ExhaustionRecoverable ==
    [][last'.op = "alloc_pkt" =>
          /\ free_stack = << >> =>
                 /\ alloc_buf(free_stack) = None
                 /\ last'.st = "none"
                 /\ UNCHANGED << free_stack, packets, buffer, strong_count, owner, pool,
                                 mem, regions, HUGEPAGE_ID >>
          /\ (last.op = "drop" /\ last'.a <= pool.entry_size) =>
                 /\ last'.st = "some"
                 /\ packets'[last'.ret].pool_entry = last.b]_vars

\* alloc_pkt found the pool exhausted: every entry is held by a live Packet
ExhaustionRecoverableWitness ==
    /\ last.op = "alloc_pkt"
    /\ last.st = "none"
    /\ last.a <= pool.entry_size
    /\ free_stack = << >>
    /\ pool.num_entries > 0
    /\ Cardinality(Live) = pool.num_entries

\* C20: every live Packet has len <= entry_size, addr_virt = base_addr + pool_entry *
\* entry_size and addr_phys = phys_addresses[pool_entry]; its bytes lie inside its
\* entry's slot, and the byte ranges of two distinct live Packets are disjoint.
NonOverlappingBuffers ==
    /\ \A h \in Live :
           LET p == packets[h] IN
           /\ p.pool_entry \in 0 .. pool.num_entries - 1
           /\ p.len <= pool.entry_size
           /\ p.addr_virt = pool.base_addr + p.pool_entry * pool.entry_size
           /\ p.addr_phys = pool.phys_addresses[p.pool_entry + 1]
           /\ p.addr_virt + p.len <= pool.base_addr + (p.pool_entry + 1) * pool.entry_size
    /\ \A h, g \in Live :
           h # g =>
               \/ packets[h].addr_virt + packets[h].len <= packets[g].addr_virt
               \/ packets[g].addr_virt + packets[g].len <= packets[h].addr_virt

\* two live Packets each fill their whole entry
NonOverlappingBuffersWitness ==
    \E h, g \in Live :
        /\ h # g
        /\ packets[h].len = pool.entry_size
        /\ packets[g].len = pool.entry_size
        /\ packets[h].pool_entry # packets[g].pool_entry
====
